---- MODULE Spec2Model ----
(***************************************************************************)
(* A model of the dashboard script (dashboard.js): the CSV load callback,  *)
(* the filter controls, renderAllCharts and its four chart renderers, the  *)
(* boundary-data fetch of the map, and the date utilities.                 *)
(*                                                                         *)
(* Time values are whole hours since 1970-01-01T00:00Z (the script never   *)
(* looks below the hour: every Date it builds is a local or a UTC          *)
(* midnight, and time-zone offsets are whole hours).  A canonical          *)
(* "YYYY-MM-DD" string is the triple of its three numbers.                 *)
(***************************************************************************)
EXTENDS Integers, Sequences, FiniteSets, TLC

VARIABLES
    zone,              \* the host's time zone
    plotly,            \* the charts whose Plotly.newPlot call raises a fault
    csv,               \* results.data: the rows handed to the load callback
    phase,             \* "loading", then "ready", "error" or "aborted"
    rawData,           \* the retained rows, each with its offsetDays
    earliestDateObj,   \* NoDate (null) or a time value
    latestDateObj,
    totalDays,
    regionOptions,     \* option values of #regionSelect besides ''
    deviceTypeOptions, \* option values of #deviceTypeSelect besides ''
    regionSelect,      \* value of #regionSelect ('' = no filter)
    deviceTypeSelect,  \* value of #deviceTypeSelect
    sliderValues,      \* $("#dateSlider").slider("values")
    toggleFilterMap,   \* toggleFilterMap.checked
    dateRangeLabel,    \* the offsets last written to the range label
    listeners,         \* the event listeners registered so far
    last,              \* what the latest renderAllCharts call read and kept
    chartLine,         \* what each chart surface shows
    chartBar,
    chartPie,
    chartMap,
    fetches,           \* boundary-data fetches in flight: rows and how many
    console,           \* diagnostics written with console.error
    nRenders,          \* renderAllCharts calls so far
    event,             \* the callback that made the latest of them, and the
                       \* label a chart click carried
    dateStr,           \* argument of a stand-alone parseDateDDMMYYYY call
    parsed,            \* its result; Pending before the call
    fromDate,          \* arguments baseDate, daysToAdd of a stand-alone
    plusDays,          \* addDays call
    toDate,            \* its result; NoDate before the call
    sample             \* the rows given to a stand-alone renderer call

storeVars == <<rawData, earliestDateObj, latestDateObj, totalDays>>
optionVars == <<regionOptions, deviceTypeOptions>>
filterVars == <<regionSelect, deviceTypeSelect, sliderValues, toggleFilterMap>>
chartVars == <<chartLine, chartBar, chartPie, chartMap>>
callVars == <<dateStr, parsed, fromDate, plusDays, toDate, sample>>

vars == <<zone, plotly, csv, phase, storeVars, optionVars, filterVars,
          dateRangeLabel, listeners, last, chartVars, fetches, console,
          nRenders, event, callVars>>

(***************************************************************************)
(* Bounds of the model.                                                    *)
(***************************************************************************)
MaxParts == 3          \* '.'-separated parts of a malformed date string
MaxRows == 2           \* rows of a CSV file
MaxRenders == 3        \* renderAllCharts calls of a run, the first one included

(***************************************************************************)
(* The JavaScript Date the script relies on.                               *)
(***************************************************************************)
HoursPerDay == 24

\* Days from 1970-01-01 to day d of month m (1..12) of year y.
CivilToDays(y, m, d) ==
    LET yy  == IF m <= 2 THEN y - 1 ELSE y
        era == yy \div 400
        yoe == yy - era * 400
        mp  == IF m > 2 THEN m - 3 ELSE m + 9
        doy == (153 * mp + 2) \div 5 + d - 1
        doe == yoe * 365 + yoe \div 4 - yoe \div 100 + doy
    IN  era * 146097 + doe - 719468

\* The years whose calendar is held in tables, so that it is computed once:
\* the day number of the first of each of their months, in order.
TableYears == 2020..2025

FirstTableYear == CHOOSE y \in TableYears : \A x \in TableYears : y <= x

MonthStart ==
    [i \in 1..(12 * Cardinality(TableYears)) |->
        CivilToDays(FirstTableYear + (i - 1) \div 12, ((i - 1) % 12) + 1, 1)] \o <<>>

DaysFromCivil(y, m, d) ==
    IF y \in TableYears
    THEN MonthStart[(y - FirstTableYear) * 12 + m] + d - 1
    ELSE CivilToDays(y, m, d)

\* The year, month (1..12) and day of month of day number n, computed in
\* steps: the day of the era, the year of the era, the day of the year
\* (counted from 1 March), the month (counted from March).
CivilOfMonth(era, yoe, doy, mp) ==
    [y |-> yoe + era * 400 + (IF mp < 10 THEN 0 ELSE 1),
     m |-> IF mp < 10 THEN mp + 3 ELSE mp - 9,
     d |-> doy - (153 * mp + 2) \div 5 + 1]

CivilOfDoy(era, yoe, doy) == CivilOfMonth(era, yoe, doy, (5 * doy + 2) \div 153)

CivilOfYoe(era, doe, yoe) ==
    CivilOfDoy(era, yoe, doe - (365 * yoe + yoe \div 4 - yoe \div 100))

CivilOfDoe(era, doe) ==
    CivilOfYoe(era, doe,
               (doe - doe \div 1460 + doe \div 36524 - doe \div 146096) \div 365)

CivilOfEra(z, era) == CivilOfDoe(era, z - era * 146097)

CivilOfShifted(z) == CivilOfEra(z, z \div 146097)

\* the civil date of each day of the table years, in order
FirstTableDay == MonthStart[1]

CivilOfDay ==
    [i \in 1..(MonthStart[Len(MonthStart)] + 31 - FirstTableDay) |->
        CivilOfShifted(FirstTableDay + i - 1 + 719468)] \o <<>>

CivilFromDays(n) ==
    IF n >= FirstTableDay /\ n < FirstTableDay + Len(CivilOfDay)
    THEN CivilOfDay[n - FirstTableDay + 1]
    ELSE CivilOfShifted(n + 719468)

\* MakeDay of the Date constructor and of setDate: month index and day of
\* month may lie outside their ranges and carry over.
MakeDay(year, monthIndex, day) ==
    DaysFromCivil(year + monthIndex \div 12, (monthIndex % 12) + 1, 1) + day - 1

\* 0 = Sunday .. 6 = Saturday; 1970-01-01 was a Thursday.
WeekDay(n) == (n + 4) % 7

Zones == {"UTC", "Europe/Vienna", "America/Bogota"}

\* the zones of the hosts the page is run on
HostZones == {"UTC", "Europe/Vienna"}

StdOffset(z) ==
    CASE z = "UTC" -> 0
      [] z = "Europe/Vienna" -> 1
      [] z = "America/Bogota" -> 0 - 5

HasDST(z) == z = "Europe/Vienna"

\* The last Sunday of March or October (both have 31 days) of year y.
SundayOnOrBefore(n) == n - WeekDay(n)

LastSunday(y, m) == SundayOnOrBefore(DaysFromCivil(y, m, 31))

\* European summer time: from 01:00 UTC on the last Sunday of March to
\* 01:00 UTC on the last Sunday of October.
InSummerOf(t, y) ==
    /\ LastSunday(y, 3) * HoursPerDay + 1 <= t
    /\ t < LastSunday(y, 10) * HoursPerDay + 1

InSummer(t) == InSummerOf(t, CivilFromDays(t \div HoursPerDay).y)

\* Offset of local time from UTC, in hours, at UTC time t.
LocalTZA(z, t) == StdOffset(z) + (IF HasDST(z) /\ InSummer(t) THEN 1 ELSE 0)

LocalTime(z, t) == t + LocalTZA(z, t)

\* The UTC time of local time lt.
UTCOfLocal(z, lt) ==
    LET summer == lt - StdOffset(z) - 1
    IN  IF HasDST(z) /\ InSummer(summer) THEN summer ELSE lt - StdOffset(z)

\* new Date(year, monthIndex, day): local midnight; a year 0..99 is 1900+year.
NewDateLocal(z, year, monthIndex, day) ==
    LET full == IF year >= 0 /\ year <= 99 THEN 1900 + year ELSE year
    IN  UTCOfLocal(z, MakeDay(full, monthIndex, day) * HoursPerDay)

\* dateObj.toISOString().split('T')[0]: the UTC calendar date of time t.
ISODate(t) == CivilFromDays(t \div HoursPerDay)

\* new Date("YYYY-MM-DD"): a date-only ISO string is that day's UTC midnight.
NewDateISO(s) == DaysFromCivil(s.y, s.m, s.d) * HoursPerDay

(***************************************************************************)
(* Date strings of the CSV.  A string is the sequence of its '.'-separated *)
(* parts, as split('.') returns them; the empty sequence stands for a      *)
(* missing or empty field.  A part is a run of digits (its number), the    *)
(* empty string, or text that is no number.                                *)
(***************************************************************************)
Num(n) == [k |-> "num", v |-> n]
EmptyPart == [k |-> "empty", v |-> 0]
TextPart == [k |-> "text", v |-> 0]
Undefined == [k |-> "undefined", v |-> 0]

DMY(d, m, y) == <<Num(d), Num(m), Num(y)>>

\* const [day, month, year] = dateStr.split('.')
Part(parts, i) == IF i <= Len(parts) THEN parts[i] ELSE Undefined

\* !x for a string or undefined
Falsy(p) == p.k \in {"empty", "undefined"}

Pending == [k |-> "pending", y |-> 0, m |-> 0, d |-> 0]
Null == [k |-> "null", y |-> 0, m |-> 0, d |-> 0]
Throws == [k |-> "throw", y |-> 0, m |-> 0, d |-> 0]
Str(c) == [k |-> "str", y |-> c.y, m |-> c.m, d |-> c.d]

\* Utility: parse "DD.MM.YYYY" -> "YYYY-MM-DD".  A part that is no number
\* makes the Date invalid, and toISOString of an invalid Date throws a
\* RangeError.
parseDateDDMMYYYY(z, s) ==
    IF s = <<>> THEN Null
    ELSE LET day == Part(s, 1)
             month == Part(s, 2)
             year == Part(s, 3)
         IN  IF Falsy(day) \/ Falsy(month) \/ Falsy(year) THEN Null
             ELSE IF day.k = "text" \/ month.k = "text" \/ year.k = "text"
                  THEN Throws
                  ELSE Str(ISODate(NewDateLocal(z, year.v, month.v - 1, day.v)))

\* dayDifference(d1, d2): how many days from d1 to d2 (integer)
dayDifference(d1, d2) == (d2 - d1) \div HoursPerDay

\* getDate(), getDay() and setDate(n) work on the host's local time.
GetDate(z, t) == CivilFromDays(LocalTime(z, t) \div HoursPerDay).d

GetDay(z, t) == WeekDay(LocalTime(z, t) \div HoursPerDay)

MakeDayIn(c, n) == MakeDay(c.y, c.m - 1, n)

SetLocalDate(z, lt, n) ==
    UTCOfLocal(z, (MakeDayIn(CivilFromDays(lt \div HoursPerDay), n) * HoursPerDay)
                  + (lt % HoursPerDay))

SetDate(z, t, n) == SetLocalDate(z, LocalTime(z, t), n)

\* addDays(dateObj, n): returns new Date object = dateObj + n days
addDays(z, baseDate, daysToAdd) == SetDate(z, baseDate, GetDate(z, baseDate) + daysToAdd)

(***************************************************************************)
(* The CSV rows.  An absent column is the empty string.                    *)
(***************************************************************************)
CsvRow(region, product, day, category) ==
    [region |-> region, product |-> product, device_created_day |-> day,
     device_type_category |-> category]

\* The rows a CSV file is made of, in file order.
MasterRows ==
    << CsvRow("Wien", "A", DMY(1, 1, 2022), "Mobile"),
       CsvRow("Wien", "B", DMY(2, 1, 2022), "Tablet"),
       CsvRow("Tirol", "A", DMY(5, 1, 2022), "Mobile"),
       CsvRow("Atlantis", "B", DMY(1, 1, 2023), ""),
       CsvRow("Tirol", "A", <<Num(1), Num(2022)>>, "Mobile"),
       CsvRow("Wien", "A", <<TextPart, Num(1), Num(2022)>>, "Mobile") >>

RECURSIVE Pick(_, _)
\* The rows of MasterRows at the indices in idx, in file order.
Pick(idx, i) ==
    IF i > Len(MasterRows) THEN <<>>
    ELSE IF i \in idx THEN <<MasterRows[i]>> \o Pick(idx, i + 1)
         ELSE Pick(idx, i + 1)

CsvFiles ==
    {Pick(idx, 1) : idx \in {x \in SUBSET (1..Len(MasterRows)) : Cardinality(x) <= MaxRows}}

(***************************************************************************)
(* Papa.parse complete: the load callback.                                 *)
(***************************************************************************)
NoDate == -1

\* new Date(x) of a parseDateDDMMYYYY result: new Date(null) is time 0.
NewDate(p) == IF p.k = "null" THEN 0 ELSE NewDateISO(p)

MinDate == NewDateISO([y |-> 2021, m |-> 10, d |-> 1])

\* the row filter of the load callback
LoadKeeps(z, row) ==
    /\ row.region # ""
    /\ row.product # ""
    /\ row.device_created_day # <<>>
    /\ NewDate(parseDateDDMMYYYY(z, row.device_created_day)) > MinDate

\* the filter calls parseDateDDMMYYYY on every row; one throw ends the callback
LoadThrows(z, rows) ==
    \E i \in 1..Len(rows) : parseDateDDMMYYYY(z, rows[i].device_created_day) = Throws

\* if (!dateStr) return; if (!earliestDateObj || dateObj < earliestDateObj) ...
EarlierOf(sofar, p) ==
    IF p.k = "null" THEN sofar
    ELSE IF sofar = NoDate \/ NewDate(p) < sofar THEN NewDate(p) ELSE sofar

LaterOf(sofar, p) ==
    IF p.k = "null" THEN sofar
    ELSE IF sofar = NoDate \/ NewDate(p) > sofar THEN NewDate(p) ELSE sofar

RECURSIVE Earliest(_, _, _)
\* the forEach of the load callback over the first n rows, for earliestDateObj
Earliest(z, rows, n) ==
    IF n = 0 THEN NoDate
    ELSE EarlierOf(Earliest(z, rows, n - 1),
                   parseDateDDMMYYYY(z, rows[n].device_created_day))

RECURSIVE Latest(_, _, _)
Latest(z, rows, n) ==
    IF n = 0 THEN NoDate
    ELSE LaterOf(Latest(z, rows, n - 1),
                 parseDateDDMMYYYY(z, rows[n].device_created_day))

\* The offset counted from the row's date to the earliest one (the arguments
\* of dayDifference swapped): the defect C25_DefaultStateShowsWholeStore has
\* to expose.
OffsetRowBackwards(row, earliest, p) ==
    [region |-> row.region, product |-> row.product,
     device_created_day |-> row.device_created_day,
     device_type_category |-> row.device_type_category,
     hasOffset |-> p.k # "null",
     offsetDays |-> IF p.k # "null" THEN dayDifference(NewDate(p), earliest) ELSE 0]

\* row.offsetDays = dayDifference(earliest, date), or null
OffsetRow(row, earliest, p) ==
    [region |-> row.region, product |-> row.product,
     device_created_day |-> row.device_created_day,
     device_type_category |-> row.device_type_category,
     hasOffset |-> p.k # "null",
     offsetDays |-> IF p.k # "null" THEN dayDifference(earliest, NewDate(p)) ELSE 0]

WithOffset(z, row, earliest) ==
    OffsetRow(row, earliest, parseDateDDMMYYYY(z, row.device_created_day))

\* the option values populateRegionDropdown and populateDeviceTypeDropdown add
RegionsOf(rows) == {rows[i].region : i \in 1..Len(rows)} \ {""}

DeviceTypesOf(rows) == {rows[i].device_type_category : i \in 1..Len(rows)} \ {""}

(***************************************************************************)
(* renderAllCharts: the filter.                                            *)
(***************************************************************************)
\* The filter with the upper end of the range off by one (>= for >): the
\* defect C2_FilteredIsExactSubsequence has to expose.
KeepsRowBelowMax(row, regionFilter, deviceTypeFilter, offsetMin, offsetMax) ==
    IF regionFilter # "" /\ row.region # regionFilter THEN FALSE
    ELSE IF deviceTypeFilter # "" /\ row.device_type_category # deviceTypeFilter THEN FALSE
    ELSE IF ~row.hasOffset THEN FALSE
    ELSE IF row.offsetDays < offsetMin \/ row.offsetDays >= offsetMax THEN FALSE
    ELSE TRUE

\* The filter with the range test inverted: it keeps the rows outside the
\* range; the defect C17_NarrowerRangeGivesSubsequence has to expose.
KeepsRowOutside(row, regionFilter, deviceTypeFilter, offsetMin, offsetMax) ==
    IF regionFilter # "" /\ row.region # regionFilter THEN FALSE
    ELSE IF deviceTypeFilter # "" /\ row.device_type_category # deviceTypeFilter THEN FALSE
    ELSE IF ~row.hasOffset THEN FALSE
    ELSE IF row.offsetDays >= offsetMin /\ row.offsetDays <= offsetMax THEN FALSE
    ELSE TRUE

KeepsRow(row, regionFilter, deviceTypeFilter, offsetMin, offsetMax) ==
    IF regionFilter # "" /\ row.region # regionFilter THEN FALSE
    ELSE IF deviceTypeFilter # "" /\ row.device_type_category # deviceTypeFilter THEN FALSE
    ELSE IF ~row.hasOffset THEN FALSE
    ELSE IF row.offsetDays < offsetMin \/ row.offsetDays > offsetMax THEN FALSE
    ELSE TRUE

FilterRows(data, regionFilter, deviceTypeFilter, offsetMin, offsetMax) ==
    SelectSeq(data, LAMBDA row :
        KeepsRow(row, regionFilter, deviceTypeFilter, offsetMin, offsetMax))

(***************************************************************************)
(* The four renderers: what each pushes to its chart surface.              *)
(***************************************************************************)
\* map.set(key, (map.get(key) || 0) + 1) on the entries in insertion order
Counted(entries, key) ==
    IF \E i \in 1..Len(entries) : entries[i].label = key
    THEN [i \in 1..Len(entries) |->
            IF entries[i].label = key
            THEN [label |-> key, count |-> entries[i].count + 1]
            ELSE entries[i]]
    ELSE Append(entries, [label |-> key, count |-> 1])

RECURSIVE Tally(_)
\* A Map from key to count, filled key by key: its entries in insertion order.
Tally(keys) ==
    IF keys = <<>> THEN <<>>
    ELSE Counted(Tally(SubSeq(keys, 1, Len(keys) - 1)), keys[Len(keys)])

\* the entry a sort by date puts first: the earliest, the first of equals
FirstByDate(entries) ==
    CHOOSE i \in 1..Len(entries) :
        \A j \in 1..Len(entries) :
            \/ NewDateISO(entries[i].label) < NewDateISO(entries[j].label)
            \/ (NewDateISO(entries[i].label) = NewDateISO(entries[j].label) /\ i <= j)

Without(entries, i) ==
    [j \in 1..(Len(entries) - 1) |-> IF j < i THEN entries[j] ELSE entries[j + 1]]

RECURSIVE SortByDate(_)
\* keys.sort((a, b) => new Date(a) - new Date(b))
SortFrom(entries, i) == <<entries[i]>> \o SortByDate(Without(entries, i))

SortByDate(entries) ==
    IF entries = <<>> THEN <<>> ELSE SortFrom(entries, FirstByDate(entries))

\* the string of a parseDateDDMMYYYY result that is one
DateOf(p) == [y |-> p.y, m |-> p.m, d |-> p.d]

\* const dateStr = parseDateDDMMYYYY(row.device_created_day), row by row
DateStrs(z, data) ==
    [i \in 1..Len(data) |-> parseDateDDMMYYYY(z, data[i].device_created_day)]

\* if (!dateStr) return;
Dated(dateStrs) == SelectSeq(dateStrs, LAMBDA p : p.k = "str")

\* firstDayOfWeek.setDate(dateObj.getDate() - dateObj.getDay() + 1)
FirstDayOfWeek(z, dateObj) ==
    SetDate(z, dateObj, GetDate(z, dateObj) - GetDay(z, dateObj) + 1)

\* the key of a date string in week mode
WeekKey(z, p) == ISODate(FirstDayOfWeek(z, NewDate(p)))

WeekModeFrom == 365

DayKeys(dateStrs) == [i \in 1..Len(dateStrs) |-> DateOf(dateStrs[i])]

WeekKeys(z, dateStrs) == [i \in 1..Len(dateStrs) |-> WeekKey(z, dateStrs[i])]

DayPoints(z, data) == SortByDate(Tally(DayKeys(Dated(DateStrs(z, data)))))

WeekPoints(z, data) == SortByDate(Tally(WeekKeys(z, Dated(DateStrs(z, data)))))

\* renderLineChart: the points (label, count) in date order.  A row adds 1 to
\* its point in day mode and 1/7 in week mode: the y value is count / den.
renderLineChart(z, data, earliest, values) ==
    IF dayDifference(addDays(z, earliest, values[1]),
                     addDays(z, earliest, values[2])) < WeekModeFrom
    THEN [drawn |-> TRUE, den |-> 1, points |-> DayPoints(z, data)]
    ELSE [drawn |-> TRUE, den |-> 7, points |-> WeekPoints(z, data)]

OrUnknown(s) == IF s = "" THEN "Unknown" ELSE s

\* The bar chart without the rows that have no category: the defect
\* C14_CountsSumToRows has to expose.
renderBarChartOfNamed(data) ==
    [drawn |-> TRUE,
     bars |-> Tally([i \in 1..Len(SelectSeq(data, LAMBDA row : row.device_type_category # "")) |->
                       SelectSeq(data, LAMBDA row : row.device_type_category # "")[i].device_type_category])]

\* renderBarChart: the bars, in order of first encounter
renderBarChart(data) ==
    [drawn |-> TRUE,
     bars |-> Tally([i \in 1..Len(data) |-> OrUnknown(data[i].device_type_category)])]

\* renderPieChart: the slices, in order of first encounter
renderPieChart(data) ==
    [drawn |-> TRUE,
     slices |-> Tally([i \in 1..Len(data) |-> OrUnknown(data[i].product)])]

\* citicenPerRegion[regionName] || 1
citicenPerRegion(regionName) ==
    CASE regionName = "Wien" -> 2000000
      [] regionName = "Niederoesterreich" -> 1730000
      [] regionName = "Oberoesterreich" -> 1530000
      [] regionName = "Salzburg" -> 570000
      [] regionName = "Steiermark" -> 1200000
      [] regionName = "Kaernten" -> 580000
      [] regionName = "Tirol" -> 780000
      [] regionName = "Vorarlberg" -> 410000
      [] regionName = "Burgenland" -> 300000
      [] OTHER -> 1

\* the regions regionView has an entry for
regionView == {"Wien", "Niederoesterreich", "Oberoesterreich", "Salzburg",
               "Steiermark", "Kaernten", "Tirol", "Vorarlberg", "Burgenland"}

\* a < b for fractions with positive denominators
FracLess(a, b) == a.num * b.den < b.num * a.den

Zero == [num |-> 0, den |-> 1]

\* zValues.length ? Math.max(...zValues) : 0
MaxOf(zValues) ==
    IF zValues = <<>> THEN Zero
    ELSE zValues[CHOOSE i \in 1..Len(zValues) :
                    \A j \in 1..Len(zValues) : ~FracLess(zValues[i], zValues[j])]

\* The share without the factor 100: the defect
\* C16_RelativeValueAndScaleMaximum has to expose.
ZValueAsShare(entry, isRelative) ==
    IF isRelative
    THEN [num |-> entry.count, den |-> citicenPerRegion(entry.label)]
    ELSE [num |-> entry.count, den |-> 1]

\* count, or count / total * 100
ZValue(entry, isRelative) ==
    IF isRelative
    THEN [num |-> entry.count * 100, den |-> citicenPerRegion(entry.label)]
    ELSE [num |-> entry.count, den |-> 1]

MapTrace(regionCounts, zValues, regionFilter, isRelative) ==
    [drawn |-> TRUE,
     locations |-> [i \in 1..Len(regionCounts) |-> regionCounts[i].label],
     z |-> zValues,
     zmax |-> MaxOf(zValues),
     relative |-> isRelative,
     view |-> IF regionFilter # "" /\ regionFilter \in regionView
              THEN regionFilter ELSE "Austria"]

MapOfCounts(regionCounts, regionFilter, isRelative) ==
    MapTrace(regionCounts,
             [i \in 1..Len(regionCounts) |-> ZValue(regionCounts[i], isRelative)],
             regionFilter, isRelative)

\* the rows the forEach of renderMapChart counts
MapCounts(data, regionFilter, deviceTypeFilter) ==
    SelectSeq(data, LAMBDA row :
        /\ row.region # ""
        /\ ~(regionFilter # "" /\ row.region # regionFilter)
        /\ ~(deviceTypeFilter # "" /\ row.device_type_category # deviceTypeFilter))

RegionKeys(rows) == [i \in 1..Len(rows) |-> rows[i].region]

\* The then-callback of the fetch in renderMapChart: data is the row set the
\* call was given; the three control values are read when the fetch is done.
renderMapChart(data, regionFilter, deviceTypeFilter, isRelative) ==
    MapOfCounts(Tally(RegionKeys(MapCounts(data, regionFilter, deviceTypeFilter))),
                regionFilter, isRelative)

(***************************************************************************)
(* The page before the load callback has run.                              *)
(***************************************************************************)
NoLine == [drawn |-> FALSE, den |-> 1, points |-> <<>>]
NoBar == [drawn |-> FALSE, bars |-> <<>>]
NoPie == [drawn |-> FALSE, slices |-> <<>>]
NoMap == [drawn |-> FALSE, locations |-> <<>>, z |-> <<>>, zmax |-> Zero,
          relative |-> FALSE, view |-> "Austria"]
NoCall == [ran |-> FALSE, regionFilter |-> "", deviceTypeFilter |-> "",
           offsetMin |-> 0, offsetMax |-> 0, filtered |-> <<>>]
NoLabel == [offsets |-> <<0, 0>>, text |-> <<>>]

Charts == {"line", "bar", "pie", "map"}

NoEvent == [by |-> "none", arg |-> ""]

Called(by) == [by |-> by, arg |-> ""]

Clicked(by, label) == [by |-> by, arg |-> label]

PageLoading(hosts, files, surfaces) ==
    /\ zone \in hosts
    /\ plotly \in surfaces
    /\ csv \in files
    /\ phase = "loading"
    /\ rawData = <<>>
    /\ earliestDateObj = NoDate
    /\ latestDateObj = NoDate
    /\ totalDays = 0
    /\ regionOptions = {}
    /\ deviceTypeOptions = {}
    /\ regionSelect = ""
    /\ deviceTypeSelect = ""
    /\ sliderValues = <<0, 0>>
    /\ toggleFilterMap = FALSE
    /\ dateRangeLabel = NoLabel
    /\ listeners = {}
    /\ last = NoCall
    /\ chartLine = NoLine
    /\ chartBar = NoBar
    /\ chartPie = NoPie
    /\ chartMap = NoMap
    /\ fetches = {}
    /\ console = {}
    /\ nRenders = 0
    /\ event = NoEvent

\* Every chart surface works.
Init ==
    /\ PageLoading(HostZones, CsvFiles, {{}})
    /\ dateStr = <<>>
    /\ parsed = Pending
    /\ fromDate = NoDate
    /\ plusDays = 0
    /\ toDate = NoDate
    /\ sample = <<>>

\* At most one chart surface raises a fault whenever it is given a plot.
InitFault ==
    /\ PageLoading(HostZones, CsvFiles, {{}} \cup {{c} : c \in Charts})
    /\ dateStr = <<>>
    /\ parsed = Pending
    /\ fromDate = NoDate
    /\ plusDays = 0
    /\ toDate = NoDate
    /\ sample = <<>>

(***************************************************************************)
(* renderAllCharts.  The three synchronous renderers run in turn and a     *)
(* fault raised by one ends the call; renderMapChart only starts a fetch.  *)
(* Plotly.newPlot drops the handlers of the plot it replaces, and the      *)
(* then-callback of the bar chart registers them again.                    *)
(***************************************************************************)
LineDone == "line" \notin plotly
BarDone == LineDone /\ "bar" \notin plotly
PieDone == BarDone /\ "pie" \notin plotly

\* fetch('data/oesterreich.json'): one more request in flight for these rows.
\* Requests that carry the same rows are counted, not told apart.
Started(inFlight, data) ==
    IF \E f \in inFlight : f.data = data
    THEN {IF f.data = data THEN [data |-> data, n |-> f.n + 1] ELSE f : f \in inFlight}
    ELSE inFlight \cup {[data |-> data, n |-> 1]}

\* one request for the rows of f has been answered
Settled(inFlight, f) ==
    (inFlight \ {f}) \cup (IF f.n > 1 THEN {[data |-> f.data, n |-> f.n - 1]} ELSE {})

BarHandlers == {"bar click", "bar doubleclick"}
MapHandlers == {"map click", "map doubleclick"}

RenderFiltered(filtered, earliest, regionFilter, deviceTypeFilter, values, registered, after) ==
    /\ last' = [ran |-> TRUE, regionFilter |-> regionFilter,
                deviceTypeFilter |-> deviceTypeFilter,
                offsetMin |-> values[1], offsetMax |-> values[2],
                filtered |-> filtered]
    /\ chartLine' = IF LineDone
                    THEN renderLineChart(zone, filtered, earliest, values)
                    ELSE chartLine
    /\ chartBar' = IF BarDone THEN renderBarChart(filtered) ELSE chartBar
    /\ chartPie' = IF PieDone THEN renderPieChart(filtered) ELSE chartPie
    /\ fetches' = IF PieDone THEN Started(fetches, filtered) ELSE fetches
    /\ listeners' = registered \cup (IF BarDone THEN BarHandlers ELSE {})
                               \cup (IF PieDone THEN after ELSE {})
    /\ nRenders' = nRenders + 1
    /\ chartMap' = chartMap

\* renderAllCharts filtering by the region the call before it read (a stale
\* value): the defect C18_FilterIsIdempotent has to expose.
renderAllChartsStale(data, earliest, regionFilter, deviceTypeFilter, values, registered, after) ==
    RenderFiltered(FilterRows(data, last.regionFilter, deviceTypeFilter,
                              values[1], values[2]),
                   earliest, regionFilter, deviceTypeFilter, values,
                   registered, after)

\* data is rawData, values what slider("values") returns; registered are the
\* listeners in place, after those the caller adds once the call has returned
renderAllCharts(data, earliest, regionFilter, deviceTypeFilter, values, registered, after) ==
    RenderFiltered(FilterRows(data, regionFilter, deviceTypeFilter,
                              values[1], values[2]),
                   earliest, regionFilter, deviceTypeFilter, values,
                   registered, after)

\* updateDateRangeLabel: the two offsets, and the months the label shows
YearMonth(c) == <<c.y, c.m>>

MonthOf(z, earliest, offset) == YearMonth(ISODate(addDays(z, earliest, offset)))

updateDateRangeLabel(z, earliest, offsetStart, offsetEnd) ==
    [offsets |-> <<offsetStart, offsetEnd>>,
     text |-> <<MonthOf(z, earliest, offsetStart), MonthOf(z, earliest, offsetEnd)>>]

\* select.value = v: the option with that value is selected; with no such
\* option none is, and the value reads ''.
SelectValue(options, v) == IF v \in options THEN v ELSE ""

(***************************************************************************)
(* Papa.parse complete.                                                    *)
(***************************************************************************)
Unfiltered(rows) ==
    [i \in 1..Len(rows) |->
        [region |-> rows[i].region, product |-> rows[i].product,
         device_created_day |-> rows[i].device_created_day,
         device_type_category |-> rows[i].device_type_category,
         hasOffset |-> FALSE, offsetDays |-> 0]]

LoadSkipped == <<totalDays, optionVars, filterVars, dateRangeLabel, listeners,
                  last, chartVars, fetches, nRenders, event>>

\* populate the dropdowns, initDateSlider, renderAllCharts, the reset listener
LoadReady(rows, earliest, total) ==
    /\ phase' = "ready"
    /\ totalDays' = total
    /\ rawData' = rows
    /\ regionOptions' = RegionsOf(rows)
    /\ deviceTypeOptions' = DeviceTypesOf(rows)
    /\ sliderValues' = <<0, total>>
    /\ dateRangeLabel' = updateDateRangeLabel(zone, earliest, 0, total)
    /\ renderAllCharts(rows, earliest, regionSelect, deviceTypeSelect,
                       <<0, total>>,
                       {"region change", "deviceType change", "slide",
                        "toggle change"},
                       {"reset click"})
    /\ event' = Called("load")
    /\ UNCHANGED <<regionSelect, deviceTypeSelect, toggleFilterMap, console>>

\* The callback taking the span from the latest date to the earliest (the
\* arguments of dayDifference swapped): the defect C21_OffsetRangeWithinSpan
\* has to expose.
LoadDatedBackwards(kept, earliest, latest) ==
    /\ earliestDateObj' = earliest
    /\ latestDateObj' = latest
    /\ IF earliest = NoDate \/ latest = NoDate
       THEN /\ phase' = "error"
            /\ rawData' = Unfiltered(kept)
            /\ console' = console \cup {"No valid dates found in data."}
            /\ UNCHANGED LoadSkipped
       ELSE LoadReady([i \in 1..Len(kept) |-> WithOffset(zone, kept[i], earliest)],
                      earliest, dayDifference(latest, earliest))

\* the callback from the dates found on
LoadDated(kept, earliest, latest) ==
    /\ earliestDateObj' = earliest
    /\ latestDateObj' = latest
    /\ IF earliest = NoDate \/ latest = NoDate
       THEN /\ phase' = "error"
            /\ rawData' = Unfiltered(kept)
            /\ console' = console \cup {"No valid dates found in data."}
            /\ UNCHANGED LoadSkipped
       ELSE LoadReady([i \in 1..Len(kept) |-> WithOffset(zone, kept[i], earliest)],
                      earliest, dayDifference(earliest, latest))

LoadKept(kept) ==
    LoadDated(kept, Earliest(zone, kept, Len(kept)), Latest(zone, kept, Len(kept)))

Load ==
    /\ phase = "loading"
    /\ IF LoadThrows(zone, csv)
       THEN \* parseDateDDMMYYYY throws inside the row filter
            /\ phase' = "aborted"
            /\ rawData' = Unfiltered(csv)
            /\ UNCHANGED <<earliestDateObj, latestDateObj, console, LoadSkipped>>
       ELSE LoadKept(SelectSeq(csv, LAMBDA row : LoadKeeps(zone, row)))
    /\ csv' = <<>>     \* the results object is not kept
    /\ UNCHANGED <<zone, plotly, callVars>>

(***************************************************************************)
(* The listeners.                                                          *)
(***************************************************************************)
CanRun(listener) ==
    /\ phase = "ready"
    /\ listener \in listeners
    /\ nRenders < MaxRenders

Fixed == <<zone, plotly, csv, phase, storeVars, optionVars, callVars>>

\* regionSelect 'change': the user picked another option
RegionChange ==
    \E v \in (regionOptions \cup {""}) \ {regionSelect} :
        /\ CanRun("region change")
        /\ regionSelect' = v
        /\ renderAllCharts(rawData, earliestDateObj, v, deviceTypeSelect,
                           sliderValues, listeners, {})
        /\ event' = Called("region change")
        /\ UNCHANGED <<Fixed, deviceTypeSelect, sliderValues, toggleFilterMap,
                       dateRangeLabel, console>>

\* deviceTypeSelect 'change'
DeviceTypeChange ==
    \E v \in (deviceTypeOptions \cup {""}) \ {deviceTypeSelect} :
        /\ CanRun("deviceType change")
        /\ deviceTypeSelect' = v
        /\ renderAllCharts(rawData, earliestDateObj, regionSelect, v,
                           sliderValues, listeners, {})
        /\ event' = Called("deviceType change")
        /\ UNCHANGED <<Fixed, regionSelect, sliderValues, toggleFilterMap,
                       dateRangeLabel, console>>

\* the offsets a slider handle is moved to
SliderStops == {0, totalDays} \cup {rawData[i].offsetDays : i \in 1..Len(rawData)}

\* The slide callback.  The widget calls it with the new handle positions
\* in ui.values and stores them only after it has returned, so
\* slider("values") inside the callback still gives the positions before
\* the move.
Slide ==
    \E index \in 1..2, newVal \in SliderStops :
        LET newValues == [sliderValues EXCEPT ![index] = newVal]
        IN  /\ CanRun("slide")
            /\ newVal # sliderValues[index]
            /\ newValues[1] <= newValues[2]
            /\ dateRangeLabel' = updateDateRangeLabel(zone, earliestDateObj,
                                                     newValues[1], newValues[2])
            /\ renderAllCharts(rawData, earliestDateObj, regionSelect,
                               deviceTypeSelect, sliderValues, listeners, {})
            /\ sliderValues' = newValues
            /\ event' = Called("slide")
            /\ UNCHANGED <<Fixed, regionSelect, deviceTypeSelect, toggleFilterMap,
                           console>>

\* toggleFilterMap 'change': the user flipped the checkbox
ToggleChange ==
    /\ CanRun("toggle change")
    /\ toggleFilterMap' = ~toggleFilterMap
    /\ renderAllCharts(rawData, earliestDateObj, regionSelect, deviceTypeSelect,
                       sliderValues, listeners, {})
    /\ event' = Called("toggle change")
    /\ UNCHANGED <<Fixed, regionSelect, deviceTypeSelect, sliderValues,
                   dateRangeLabel, console>>

\* The reset listener without its toggle line: the defect
\* C4_ResetRestoresDefault has to expose.
ResetWithoutToggle ==
    /\ CanRun("reset click")
    /\ regionSelect' = ""
    /\ deviceTypeSelect' = ""
    /\ sliderValues' = <<0, totalDays>>
    /\ dateRangeLabel' = updateDateRangeLabel(zone, earliestDateObj, 0, totalDays)
    /\ renderAllCharts(rawData, earliestDateObj, "", "", <<0, totalDays>>,
                       listeners, {})
    /\ event' = Called("reset click")
    /\ UNCHANGED <<Fixed, toggleFilterMap, console>>

\* resetFilters 'click'
Reset ==
    /\ CanRun("reset click")
    /\ regionSelect' = ""
    /\ deviceTypeSelect' = ""
    /\ sliderValues' = <<0, totalDays>>
    /\ dateRangeLabel' = updateDateRangeLabel(zone, earliestDateObj, 0, totalDays)
    /\ toggleFilterMap' = FALSE
    /\ renderAllCharts(rawData, earliestDateObj, "", "", <<0, totalDays>>,
                       listeners, {})
    /\ event' = Called("reset click")
    /\ UNCHANGED <<Fixed, console>>

\* plotly_click on the map: eventData.points[0].location
MapClick ==
    \E i \in 1..Len(chartMap.locations) :
        LET clickedRegion == chartMap.locations[i]
            value == SelectValue(regionOptions, clickedRegion)
        IN  /\ CanRun("map click")
            /\ regionSelect' = value
            /\ renderAllCharts(rawData, earliestDateObj, value, deviceTypeSelect,
                               sliderValues, listeners, {})
            /\ event' = Clicked("map click", clickedRegion)
            /\ UNCHANGED <<Fixed, deviceTypeSelect, sliderValues, toggleFilterMap,
                           dateRangeLabel, console>>

\* plotly_doubleclick on the map
MapDoubleClick ==
    /\ CanRun("map doubleclick")
    /\ regionSelect' = ""
    /\ renderAllCharts(rawData, earliestDateObj, "", deviceTypeSelect,
                       sliderValues, listeners, {})
    /\ event' = Called("map doubleclick")
    /\ UNCHANGED <<Fixed, deviceTypeSelect, sliderValues, toggleFilterMap,
                   dateRangeLabel, console>>

\* plotly_click on the bar chart: eventData.points[0].x
BarClick ==
    \E i \in 1..Len(chartBar.bars) :
        LET clickedCategory == chartBar.bars[i].label
            value == SelectValue(deviceTypeOptions, clickedCategory)
        IN  /\ CanRun("bar click")
            /\ deviceTypeSelect' = value
            /\ renderAllCharts(rawData, earliestDateObj, regionSelect, value,
                               sliderValues, listeners, {})
            /\ event' = Clicked("bar click", clickedCategory)
            /\ UNCHANGED <<Fixed, regionSelect, sliderValues, toggleFilterMap,
                           dateRangeLabel, console>>

\* plotly_doubleclick on the bar chart
BarDoubleClick ==
    /\ CanRun("bar doubleclick")
    /\ deviceTypeSelect' = ""
    /\ renderAllCharts(rawData, earliestDateObj, regionSelect, "",
                       sliderValues, listeners, {})
    /\ event' = Called("bar doubleclick")
    /\ UNCHANGED <<Fixed, regionSelect, sliderValues, toggleFilterMap,
                   dateRangeLabel, console>>

(***************************************************************************)
(* The boundary-data fetch of renderMapChart.  Fetches in flight complete  *)
(* in any order, or fail, or stay in flight.                               *)
(***************************************************************************)
GeoJsonError == "Failed to load GeoJSON:"

\* .then(geoData => ...): the map is drawn and its handlers registered; a
\* fault raised on the way is caught by the .catch of the chain
FetchDone ==
    \E f \in fetches :
        /\ fetches' = Settled(fetches, f)
        /\ IF "map" \in plotly
           THEN /\ console' = console \cup {GeoJsonError}
                /\ UNCHANGED <<chartMap, listeners>>
           ELSE /\ chartMap' = renderMapChart(f.data, regionSelect,
                                              deviceTypeSelect, toggleFilterMap)
                /\ listeners' = listeners \cup MapHandlers
                /\ UNCHANGED console
        /\ UNCHANGED <<Fixed, filterVars, dateRangeLabel, last, chartLine,
                       chartBar, chartPie, nRenders, event>>

\* A catch that swallows the error: the defect C10_FetchFailureOnlyCostsTheMap
\* has to expose.
FetchFailedSilently ==
    \E f \in fetches :
        /\ fetches' = Settled(fetches, f)
        /\ UNCHANGED <<Fixed, filterVars, dateRangeLabel, listeners, last,
                       chartVars, nRenders, event, console>>

\* .catch(err => console.error('Failed to load GeoJSON:', err))
FetchFailed ==
    \E f \in fetches :
        /\ fetches' = Settled(fetches, f)
        /\ console' = console \cup {GeoJsonError}
        /\ UNCHANGED <<Fixed, filterVars, dateRangeLabel, listeners, last,
                       chartVars, nRenders, event>>

Next ==
    \/ Load
    \/ RegionChange
    \/ DeviceTypeChange
    \/ Slide
    \/ ToggleChange
    \/ Reset
    \/ MapClick
    \/ MapDoubleClick
    \/ BarClick
    \/ BarDoubleClick
    \/ FetchDone
    \/ FetchFailed

Spec == Init /\ [][Next]_vars

SpecFault == InitFault /\ [][Next]_vars

(***************************************************************************)
(* The page on CSV files whose rows lie a year apart, so that the slider   *)
(* spans 364 or 365 days, across the change to summer time of March.       *)
(***************************************************************************)
SpanRows ==
    << CsvRow("Wien", "A", DMY(28, 3, 2022), "Mobile"),
       CsvRow("Tirol", "B", DMY(27, 3, 2023), "Tablet"),
       CsvRow("Wien", "A", DMY(28, 3, 2023), "") >>

SpanFiles ==
    {SelectSeq(SpanRows, LAMBDA row : row \in rows) :
        rows \in {x \in SUBSET {SpanRows[i] : i \in 1..Len(SpanRows)} :
                     Cardinality(x) <= MaxRows}}

InitSpan ==
    /\ PageLoading(HostZones, SpanFiles, {{}})
    /\ dateStr = <<>>
    /\ parsed = Pending
    /\ fromDate = NoDate
    /\ plusDays = 0
    /\ toDate = NoDate
    /\ sample = <<>>

SpecSpan == InitSpan /\ [][Next]_vars

(***************************************************************************)
(* The page on CSV files whose rows lie at the edges of the row filter of  *)
(* the load callback (a field missing, a date around the minimum date),    *)
(* and on the file of the first three rows of MasterRows.                  *)
(***************************************************************************)
EdgeRows ==
    << CsvRow("Wien", "A", DMY(30, 9, 2021), "Mobile"),
       CsvRow("Wien", "B", DMY(1, 10, 2021), "Tablet"),
       CsvRow("Tirol", "A", DMY(2, 10, 2021), "Mobile"),
       CsvRow("", "A", DMY(5, 10, 2021), "Mobile"),
       CsvRow("Tirol", "", DMY(5, 10, 2021), "Tablet"),
       CsvRow("Wien", "B", <<>>, "") >>

InitEdge ==
    /\ PageLoading(HostZones,
                   {SelectSeq(EdgeRows, LAMBDA row : row \in rows) :
                       rows \in {x \in SUBSET {EdgeRows[i] : i \in 1..Len(EdgeRows)} :
                                    Cardinality(x) <= MaxRows}}
                       \cup {SubSeq(MasterRows, 1, 3)},
                   {{}})
    /\ dateStr = <<>>
    /\ parsed = Pending
    /\ fromDate = NoDate
    /\ plusDays = 0
    /\ toDate = NoDate
    /\ sample = <<>>

SpecEdge == InitEdge /\ [][Next]_vars

(***************************************************************************)
(* The script as src/js/dashboard.js has it: the load callback keeps the   *)
(* rows with a region, a product and a creation day, fills the region      *)
(* dropdown and renders; the only control is the region dropdown.  A date  *)
(* string is first parsed in renderLineChart, where a throw ends the call. *)
(***************************************************************************)
BasicKeeps(row) ==
    /\ row.region # ""
    /\ row.product # ""
    /\ row.device_created_day # <<>>

BasicFilterRows(data, regionFilter) ==
    IF regionFilter # ""
    THEN SelectSeq(data, LAMBDA row : row.region = regionFilter)
    ELSE data

\* renderLineChart of src/js/dashboard.js: always by day
BasicRenderLineChart(z, data) ==
    [drawn |-> TRUE, den |-> 1, points |-> DayPoints(z, data)]

\* renderMapChart of src/js/dashboard.js: every row with a region is
\* counted; the region dropdown, read when the fetch is done, sets the view
BasicRenderMapChart(data, regionFilter) ==
    MapOfCounts(Tally(RegionKeys(MapCounts(data, "", ""))), regionFilter, FALSE)

BasicLineDone(filtered) == LineDone /\ ~LoadThrows(zone, filtered)
BasicBarDone(filtered) == BasicLineDone(filtered) /\ "bar" \notin plotly
BasicPieDone(filtered) == BasicBarDone(filtered) /\ "pie" \notin plotly

BasicRenderFiltered(filtered, regionFilter) ==
    /\ last' = [ran |-> TRUE, regionFilter |-> regionFilter,
                deviceTypeFilter |-> "", offsetMin |-> 0, offsetMax |-> 0,
                filtered |-> filtered]
    /\ chartLine' = IF BasicLineDone(filtered)
                    THEN BasicRenderLineChart(zone, filtered) ELSE chartLine
    /\ chartBar' = IF BasicBarDone(filtered)
                   THEN renderBarChart(filtered) ELSE chartBar
    /\ chartPie' = IF BasicPieDone(filtered)
                   THEN renderPieChart(filtered) ELSE chartPie
    /\ fetches' = IF BasicPieDone(filtered)
                  THEN Started(fetches, filtered) ELSE fetches
    /\ nRenders' = nRenders + 1
    /\ chartMap' = chartMap

BasicRenderAllCharts(data, regionFilter) ==
    BasicRenderFiltered(BasicFilterRows(data, regionFilter), regionFilter)

BasicFixed == <<zone, plotly, earliestDateObj, latestDateObj, totalDays,
                deviceTypeOptions, deviceTypeSelect, sliderValues,
                toggleFilterMap, dateRangeLabel, callVars>>

BasicLoaded(rows) ==
    /\ phase' = "ready"
    /\ rawData' = rows
    /\ regionOptions' = RegionsOf(rows)
    /\ listeners' = {"region change"}
    /\ BasicRenderAllCharts(rows, regionSelect)
    /\ event' = Called("load")
    /\ csv' = <<>>
    /\ UNCHANGED <<BasicFixed, regionSelect, console>>

BasicLoad ==
    /\ phase = "loading"
    /\ BasicLoaded(Unfiltered(SelectSeq(csv, BasicKeeps)))

BasicRegionChange ==
    \E v \in (regionOptions \cup {""}) \ {regionSelect} :
        /\ CanRun("region change")
        /\ regionSelect' = v
        /\ BasicRenderAllCharts(rawData, v)
        /\ event' = Called("region change")
        /\ UNCHANGED <<BasicFixed, csv, phase, rawData, regionOptions,
                       listeners, console>>

BasicFetchDone ==
    \E f \in fetches :
        /\ fetches' = Settled(fetches, f)
        /\ chartMap' = BasicRenderMapChart(f.data, regionSelect)
        /\ UNCHANGED <<BasicFixed, csv, phase, rawData, regionOptions,
                       regionSelect, listeners, last, chartLine, chartBar,
                       chartPie, console, nRenders, event>>

NextBasic ==
    \/ BasicLoad
    \/ BasicRegionChange
    \/ BasicFetchDone
    \/ FetchFailed

SpecBasic == Init /\ [][NextBasic]_vars

(***************************************************************************)
(* Stand-alone calls of parseDateDDMMYYYY.                                 *)
(***************************************************************************)
Years == {2021, 2022, 2024}

DaysInMonth(y, m) == MakeDay(y, m, 1) - MakeDay(y, m - 1, 1)

ValidDates ==
    UNION {{DMY(d, m, y) : d \in 1..DaysInMonth(y, m)} : m \in 1..12, y \in Years}

PartPool == {Num(1), Num(2022), EmptyPart, TextPart}

MalformedDates ==
    {s \in UNION {[1..n -> PartPool] : n \in 0..MaxParts} :
        \/ Len(s) < 3
        \/ \E i \in 1..3 : s[i].k # "num"}

InitParse ==
    /\ PageLoading(Zones, {<<>>}, {{}})
    /\ dateStr \in ValidDates \cup MalformedDates
    /\ parsed = Pending
    /\ fromDate = NoDate
    /\ plusDays = 0
    /\ toDate = NoDate
    /\ sample = <<>>

Parse ==
    /\ parsed = Pending
    /\ parsed' = parseDateDDMMYYYY(zone, dateStr)
    /\ UNCHANGED <<zone, plotly, csv, phase, storeVars, optionVars, filterVars,
                   dateRangeLabel, listeners, last, chartVars, fetches, console,
                   nRenders, event, dateStr, fromDate, plusDays, toDate, sample>>

NextParse == Parse

SpecParse == InitParse /\ [][NextParse]_vars

(***************************************************************************)
(* Stand-alone calls of addDays, on the UTC midnight of the first of each  *)
(* month of 2022 and on the local midnight new Date(2022, 0, 1).           *)
(***************************************************************************)
InitDays ==
    /\ PageLoading(Zones, {<<>>}, {{}})
    /\ dateStr = <<>>
    /\ parsed = Pending
    /\ fromDate \in {NewDateISO([y |-> 2022, m |-> m, d |-> 1]) : m \in 1..12}
                    \cup {NewDateLocal(zone, 2022, 0, 1)}
    /\ plusDays \in {0, 1, 30, 100, 200, 364, 365}
    /\ toDate = NoDate
    /\ sample = <<>>

AddDaysCall ==
    /\ toDate = NoDate
    /\ toDate' = addDays(zone, fromDate, plusDays)
    /\ UNCHANGED <<zone, plotly, csv, phase, storeVars, optionVars, filterVars,
                   dateRangeLabel, listeners, last, chartVars, fetches, console,
                   nRenders, event, dateStr, parsed, fromDate, plusDays, sample>>

SpecDays == InitDays /\ [][AddDaysCall]_vars

(***************************************************************************)
(* Stand-alone calls of the bar, pie and map renderers on rows of any      *)
(* content, with the controls the map renderer reads set to any value.     *)
(***************************************************************************)
InitRender ==
    /\ zone = "UTC"       \* the three renderers do not read the clock
    /\ plotly = {}
    /\ csv = <<>>
    /\ phase = "ready"
    /\ sample \in UNION {[1..n -> [region : {"Wien", "Tirol", "Atlantis", ""},
                                    product : {"A", ""},
                                    device_created_day : {DMY(1, 1, 2022)},
                                    device_type_category : {"Mobile", ""},
                                    hasOffset : {TRUE},
                                    offsetDays : {0}]] : n \in 0..MaxRows}
    /\ rawData = <<>>
    /\ earliestDateObj = NoDate
    /\ latestDateObj = NoDate
    /\ totalDays = 0
    /\ regionOptions = {}
    /\ deviceTypeOptions = {}
    /\ regionSelect \in {"", "Wien", "Atlantis"}
    /\ deviceTypeSelect \in {"", "Mobile"}
    /\ sliderValues = <<0, 0>>
    /\ toggleFilterMap \in BOOLEAN
    /\ dateRangeLabel = NoLabel
    /\ listeners = {}
    /\ last = NoCall
    /\ chartLine = NoLine
    /\ chartBar = NoBar
    /\ chartPie = NoPie
    /\ chartMap = NoMap
    /\ fetches = {}
    /\ console = {}
    /\ nRenders = 0
    /\ event = NoEvent
    /\ dateStr = <<>>
    /\ parsed = Pending
    /\ fromDate = NoDate
    /\ plusDays = 0
    /\ toDate = NoDate

BarCall ==
    /\ ~chartBar.drawn
    /\ chartBar' = renderBarChart(sample)
    /\ UNCHANGED <<chartLine, chartPie, chartMap, Fixed, filterVars,
                   dateRangeLabel, listeners, last, fetches, console, nRenders,
                   event>>

PieCall ==
    /\ ~chartPie.drawn
    /\ chartPie' = renderPieChart(sample)
    /\ UNCHANGED <<chartLine, chartBar, chartMap, Fixed, filterVars,
                   dateRangeLabel, listeners, last, fetches, console, nRenders,
                   event>>

MapCall ==
    /\ ~chartMap.drawn
    /\ chartMap' = renderMapChart(sample, regionSelect, deviceTypeSelect,
                                  toggleFilterMap)
    /\ UNCHANGED <<chartLine, chartBar, chartPie, Fixed, filterVars,
                   dateRangeLabel, listeners, last, fetches, console, nRenders,
                   event>>

SpecRender == InitRender /\ [][BarCall \/ PieCall \/ MapCall]_vars

(***************************************************************************)
(* The claims of the specification, C1 to C10.                             *)
(***************************************************************************)
\* the Filter Engine's output for the Filter State the controls show
CurrentSubset ==
    FilterRows(rawData, regionSelect, deviceTypeSelect,
               sliderValues[1], sliderValues[2])

\* no fetch is in flight and none has failed
Quiescent == phase = "ready" /\ fetches = {} /\ GeoJsonError \notin console

\* what each chart shows when it is drawn from the rows in data
LineShows(data, values) ==
    chartLine = renderLineChart(zone, data, earliestDateObj, values)

BarShows(data) == chartBar = renderBarChart(data)

PieShows(data) == chartPie = renderPieChart(data)

\* C1: once every boundary-data fetch has completed successfully and no
\* event is pending, each of the four charts shows the aggregation of the
\* filter's output for the Filter State the controls show.
C1_ChartsShowCurrentFilterState ==
    Quiescent =>
        /\ LineShows(CurrentSubset, sliderValues)
        /\ BarShows(CurrentSubset)
        /\ PieShows(CurrentSubset)
        /\ chartMap = renderMapChart(CurrentSubset, regionSelect,
                                     deviceTypeSelect, toggleFilterMap)

\* the retention rule, on the values a renderAllCharts call has read
Retained(row, call) ==
    /\ call.regionFilter = "" \/ row.region = call.regionFilter
    /\ call.deviceTypeFilter = "" \/ row.device_type_category = call.deviceTypeFilter
    /\ row.hasOffset
    /\ call.offsetMin <= row.offsetDays
    /\ row.offsetDays <= call.offsetMax

RetainedIndices(call) == {i \in 1..Len(rawData) : Retained(rawData[i], call)}

\* the k-th smallest member of a set of indices
KthOf(indices, k) ==
    CHOOSE i \in indices : Cardinality({j \in indices : j < i}) = k - 1

\* C2: the filtered subset of a renderAllCharts call is exactly the rows of
\* the Dataset Store that satisfy the retention rule, in dataset order: as
\* many rows as satisfy it, the k-th of them the k-th such row of the store.
C2_FilteredIsExactSubsequence ==
    last.ran =>
        /\ Len(last.filtered) = Cardinality(RetainedIndices(last))
        /\ \A k \in 1..Len(last.filtered) :
               last.filtered[k] = rawData[KthOf(RetainedIndices(last), k)]

\* a renderAllCharts call has filtered on region and on the date range, kept
\* a row and dropped a row
C2_Witness ==
    /\ last.ran
    /\ last.regionFilter # ""
    /\ last.offsetMin > 0
    /\ last.filtered # <<>>
    /\ Len(last.filtered) < Len(rawData)

\* the step is a renderAllCharts call made by one of the four chart handlers
ChartEvent ==
    /\ nRenders' = nRenders + 1
    /\ event'.by \in {"map click", "map doubleclick", "bar click", "bar doubleclick"}

\* the call has read the Filter State the controls show after the step
RecomputedWithNewState ==
    /\ last'.ran
    /\ last'.regionFilter = regionSelect'
    /\ last'.deviceTypeFilter = deviceTypeSelect'
    /\ last'.offsetMin = sliderValues'[1]
    /\ last'.offsetMax = sliderValues'[2]

\* C3: a map click sets the region filter to the clicked region, a bar click
\* the category filter to the clicked category, a double-click clears that
\* one filter; the other Filter State fields and the Dataset Store stay as
\* they are, and the event triggers a recomputation.
C3_ChartClicksSetOneFilter ==
    [][ChartEvent =>
          /\ event'.by = "map click" =>
                 regionSelect' = event'.arg /\ UNCHANGED deviceTypeSelect
          /\ event'.by = "bar click" =>
                 deviceTypeSelect' = event'.arg /\ UNCHANGED regionSelect
          /\ event'.by = "map doubleclick" =>
                 regionSelect' = "" /\ UNCHANGED deviceTypeSelect
          /\ event'.by = "bar doubleclick" =>
                 deviceTypeSelect' = "" /\ UNCHANGED regionSelect
          /\ UNCHANGED <<sliderValues, toggleFilterMap, storeVars>>
          /\ RecomputedWithNewState]_vars

\* C4: after the reset action the Filter State is (no region, no category,
\* (0, totalDays), map not relative), whatever it was before, and the
\* recomputation the action triggered has filtered with that state.
C4_ResetRestoresDefault ==
    event.by = "reset click" =>
        /\ regionSelect = ""
        /\ deviceTypeSelect = ""
        /\ sliderValues = <<0, totalDays>>
        /\ toggleFilterMap = FALSE
        /\ last = [ran |-> TRUE, regionFilter |-> "", deviceTypeFilter |-> "",
                   offsetMin |-> 0, offsetMax |-> totalDays,
                   filtered |-> FilterRows(rawData, "", "", 0, totalDays)]

\* the reset listener has run while the map still shows the view of a region
\* that was selected before it
C4_Witness ==
    /\ event.by = "reset click"
    /\ chartMap.drawn
    /\ chartMap.view # "Austria"

\* C5: for every malformed date string (empty, a part missing, a part that
\* is no number) parseDateDDMMYYYY returns null and does not throw.
C5_MalformedGivesNull ==
    (parsed # Pending /\ dateStr \in MalformedDates) => parsed = Null

\* C6: for every valid DD.MM.YYYY string, in every time zone of the host,
\* parseDateDDMMYYYY returns the canonical string of the same day, month
\* and year.
C6_SameCalendarDate ==
    (parsed # Pending /\ dateStr \in ValidDates) =>
        parsed = Str([y |-> dateStr[3].v, m |-> dateStr[2].v, d |-> dateStr[1].v])

\* load filtering is over and no retained row has a date that parses
NoParsableDate ==
    /\ phase \in {"ready", "error"}
    /\ \A i \in 1..Len(rawData) :
           parseDateDDMMYYYY(zone, rawData[i].device_created_day).k # "str"

\* C7: if after load filtering no retained row has a parsable date, a
\* diagnostic is emitted, no chart is ever rendered, no listener is
\* registered and no render is ever made.
C7_NoValidDatesIsFatal ==
    NoParsableDate =>
        /\ console # {}
        /\ ~chartLine.drawn /\ ~chartBar.drawn /\ ~chartPie.drawn /\ ~chartMap.drawn
        /\ listeners = {}
        /\ nRenders = 0
        /\ fetches = {}

\* a row with a region, a product and a date string that does not parse
Unparseable(z, row) ==
    /\ row.region # ""
    /\ row.product # ""
    /\ row.device_created_day # <<>>
    /\ parseDateDDMMYYYY(z, row.device_created_day).k # "str"

\* how many rows a chart counts under a label
CountUnder(entries, label) ==
    IF \E i \in 1..Len(entries) : entries[i].label = label
    THEN entries[CHOOSE i \in 1..Len(entries) : entries[i].label = label].count
    ELSE 0

CategoryOf(row) == OrUnknown(row.device_type_category)

ProductOf(row) == OrUnknown(row.product)

\* row i of the file and the rows retained at load that share its category
SameCategory(i) ==
    {j \in 1..Len(csv) :
        /\ CategoryOf(csv[j]) = CategoryOf(csv[i])
        /\ j = i \/ LoadKeeps(zone, csv[j])}

\* row i of the file and the rows retained at load that share its product
SameProduct(i) ==
    {j \in 1..Len(csv) :
        /\ ProductOf(csv[j]) = ProductOf(csv[i])
        /\ j = i \/ LoadKeeps(zone, csv[j])}

\* C8: a row whose creation date does not parse raises no fault in the load
\* callback and, where the charts are rendered, is counted with the other
\* rows of its category and of its product, and is no point of the line chart.
C8_UnparseableRowStillCounted ==
    [][(phase = "loading" /\ phase' # "loading") =>
          \A i \in 1..Len(csv) :
              Unparseable(zone, csv[i]) =>
                  /\ phase' # "aborted"
                  /\ phase' = "ready" =>
                         /\ CountUnder(chartBar'.bars, CategoryOf(csv[i]))
                                >= Cardinality(SameCategory(i))
                         /\ CountUnder(chartPie'.slices, ProductOf(csv[i]))
                                >= Cardinality(SameProduct(i))]_vars

\* the render chart c has had from the latest recomputation; for the map,
\* that its fetch was started
RenderedByLast(c) ==
    CASE c = "line" -> LineShows(last.filtered, <<last.offsetMin, last.offsetMax>>)
      [] c = "bar" -> BarShows(last.filtered)
      [] c = "pie" -> PieShows(last.filtered)
      [] c = "map" -> \/ \E f \in fetches : f.data = last.filtered
                      \/ chartMap.drawn
                      \/ GeoJsonError \in console

\* C9: when one chart raises a fault during a recomputation, the other
\* charts are still rendered for that recomputation.
C9_FaultSparesOtherCharts ==
    last.ran => \A c \in Charts \ plotly : RenderedByLast(c)

\* the step answers a fetch: the fetches in flight change with no new call
FetchSettles == fetches' # fetches /\ nRenders' = nRenders

ControlListeners ==
    {"region change", "deviceType change", "slide", "toggle change", "reset click"}

\* C10: a boundary fetch that fails, or never completes, costs only the map.
\* The step that answers a fetch either draws the map from the rows of a
\* fetch in flight or logs the failure, and leaves the other charts, the
\* Filter State and the store alone; whatever became of the fetches, the
\* line, bar and pie chart show the latest recomputation and the listeners
\* of the controls stay registered.
C10_FetchFailureOnlyCostsTheMap ==
    [][/\ FetchSettles =>
            /\ \/ GeoJsonError \in console'
               \/ \E f \in fetches :
                      chartMap' = renderMapChart(f.data, regionSelect,
                                                 deviceTypeSelect, toggleFilterMap)
            /\ UNCHANGED <<chartLine, chartBar, chartPie, filterVars, storeVars,
                           optionVars, dateRangeLabel, last, phase>>
       /\ last'.ran =>
            /\ chartLine' = renderLineChart(zone, last'.filtered, earliestDateObj',
                                            <<last'.offsetMin, last'.offsetMax>>)
            /\ chartBar' = renderBarChart(last'.filtered)
            /\ chartPie' = renderPieChart(last'.filtered)
            /\ ControlListeners \subseteq listeners']_vars

\* a fetch has failed and another is still unanswered; the map was never
\* drawn, and a later event has rendered the other three charts
C10_Witness ==
    /\ GeoJsonError \in console
    /\ fetches # {}
    /\ ~chartMap.drawn
    /\ event.by \notin {"none", "load"}
    /\ chartLine.drawn /\ chartBar.drawn /\ chartPie.drawn
    /\ BarShows(last.filtered)

(***************************************************************************)
(* The claims of the specification, C11 to C20.                            *)
(***************************************************************************)
RECURSIVE Total(_)
\* the sum of the counts of a chart's entries
Total(entries) ==
    IF entries = <<>> THEN 0
    ELSE entries[1].count + Total(Tail(entries))

\* the days between the slider handles the latest call read
SelectedRange == last.offsetMax - last.offsetMin

\* the line chart counts every row of the latest call, each with weight 1/den
LineCountsAll(den) ==
    /\ chartLine.drawn
    /\ chartLine.den = den
    /\ Total(chartLine.points) = Len(last.filtered)

\* C11: the line chart buckets by day below a selected range of 365 days and
\* by week from 365 days on: with the handles exactly 364 days apart every
\* row adds 1 to a day bucket, with the handles exactly 365 days apart every
\* row adds 1/7 to a week bucket.
C11_GranularitySwitchAt365 ==
    last.ran =>
        /\ SelectedRange = 364 => LineCountsAll(1)
        /\ SelectedRange = 365 => LineCountsAll(7)

\* the date string the parser gave for a retained row
RowDate(row) == DateOf(parseDateDDMMYYYY(zone, row.device_created_day))

\* the day number of a date, and the Monday on or before a day number
DayNumber(c) == DaysFromCivil(c.y, c.m, c.d)

MondayOnOrBefore(n) == n - ((WeekDay(n) + 6) % 7)

\* the Monday of the ISO week (Monday to Sunday) that contains date c
IsoWeekStart(c) == CivilFromDays(MondayOnOrBefore(DayNumber(c)))

\* the rows of the latest call in the ISO week of its row i
SameIsoWeek(i) ==
    {j \in 1..Len(last.filtered) :
        IsoWeekStart(RowDate(last.filtered[j])) = IsoWeekStart(RowDate(last.filtered[i]))}

\* C12: in week mode every row is counted under the Monday of the ISO week
\* that contains its date, so that a row dated on a Sunday is in the bucket
\* of the Monday six days before it.
C12_WeekBucketIsIsoMonday ==
    (last.ran /\ chartLine.drawn /\ chartLine.den = 7) =>
        \A i \in 1..Len(last.filtered) :
            CountUnder(chartLine.points, IsoWeekStart(RowDate(last.filtered[i])))
                = Cardinality(SameIsoWeek(i))

\* C13: adding n days to a date and taking the day difference gives n back,
\* also when the n days cross a change of the host's clock to or from
\* summer time.
C13_AddDaysRoundTrip ==
    toDate # NoDate => dayDifference(fromDate, toDate) = plusDays

\* the rows of the sample whose category, or product, shows under a label
OfCategory(label) ==
    {i \in 1..Len(sample) : OrUnknown(sample[i].device_type_category) = label}

OfProduct(label) ==
    {i \in 1..Len(sample) : OrUnknown(sample[i].product) = label}

\* C14: the counts the category aggregator emits add up to the number of
\* input rows, and so do those of the product aggregator; every row is in
\* the one bucket of its field, a row without the field in 'Unknown'.
C14_CountsSumToRows ==
    /\ chartBar.drawn =>
          /\ Total(chartBar.bars) = Len(sample)
          /\ \A i \in 1..Len(sample) :
                CountUnder(chartBar.bars, OrUnknown(sample[i].device_type_category))
                    = Cardinality(OfCategory(OrUnknown(sample[i].device_type_category)))
          /\ CountUnder(chartBar.bars, "Unknown")
                = Cardinality({i \in 1..Len(sample) : sample[i].device_type_category = ""})
    /\ chartPie.drawn =>
          /\ Total(chartPie.slices) = Len(sample)
          /\ \A i \in 1..Len(sample) :
                CountUnder(chartPie.slices, OrUnknown(sample[i].product))
                    = Cardinality(OfProduct(OrUnknown(sample[i].product)))
          /\ CountUnder(chartPie.slices, "Unknown")
                = Cardinality({i \in 1..Len(sample) : sample[i].product = ""})

\* both aggregators have counted rows with and without the field
C14_Witness ==
    /\ chartBar.drawn
    /\ chartPie.drawn
    /\ Len(sample) = MaxRows
    /\ \E i, j \in 1..Len(sample) :
          /\ sample[i].device_type_category = "" /\ sample[j].device_type_category # ""
          /\ sample[j].product = "" /\ sample[i].product # ""

\* the raw count of a region: the rows of the sample with that region which
\* pass the region and the category filter of the controls
RawCount(regionName) ==
    Cardinality({i \in 1..Len(sample) :
        /\ sample[i].region = regionName
        /\ regionSelect = "" \/ sample[i].region = regionSelect
        /\ deviceTypeSelect = "" \/ sample[i].device_type_category = deviceTypeSelect})

\* the fraction f is the number n / d
IsFraction(f, n, d) == f.num * d = n * f.den

\* C15: in relative mode a region that is not in the population table is
\* emitted with its raw count as value.
C15_UnknownRegionKeepsRawCount ==
    (chartMap.drawn /\ toggleFilterMap) =>
        \A i \in 1..Len(chartMap.locations) :
            chartMap.locations[i] \notin regionView =>
                IsFraction(chartMap.z[i], RawCount(chartMap.locations[i]), 1)

\* the regions the map emits are those with a raw count, once each
EmitsCountedRegions ==
    /\ \A i, j \in 1..Len(chartMap.locations) :
          chartMap.locations[i] = chartMap.locations[j] => i = j
    /\ {chartMap.locations[i] : i \in 1..Len(chartMap.locations)}
          = {sample[i].region : i \in 1..Len(sample)}
              \cap {r \in {"Wien", "Tirol", "Atlantis"} : RawCount(r) > 0}

\* C16: in relative mode a region of the population table is emitted with
\* its raw count over its population, times 100; with the toggle off every
\* region is emitted with its raw count; the scale maximum is the largest
\* emitted value, and 0 when no region is emitted.
C16_RelativeValueAndScaleMaximum ==
    chartMap.drawn =>
        /\ EmitsCountedRegions
        /\ \A i \in 1..Len(chartMap.locations) :
              IF toggleFilterMap
              THEN chartMap.locations[i] \in regionView =>
                       IsFraction(chartMap.z[i],
                                  RawCount(chartMap.locations[i]) * 100,
                                  citicenPerRegion(chartMap.locations[i]))
              ELSE IsFraction(chartMap.z[i], RawCount(chartMap.locations[i]), 1)
        /\ \A i \in 1..Len(chartMap.z) : ~FracLess(chartMap.zmax, chartMap.z[i])
        /\ IF chartMap.z = <<>>
           THEN chartMap.zmax = Zero
           ELSE \E i \in 1..Len(chartMap.z) : chartMap.zmax = chartMap.z[i]

\* the map shows two regions of the table in relative mode, the one with
\* the lower count having the higher value
C16_Witness ==
    /\ chartMap.drawn
    /\ toggleFilterMap
    /\ \E i, j \in 1..Len(chartMap.locations) :
          /\ chartMap.locations[i] = "Wien"
          /\ chartMap.locations[j] = "Tirol"
          /\ RawCount("Wien") >= RawCount("Tirol")
          /\ chartMap.zmax = chartMap.z[j]
          /\ FracLess(chartMap.z[i], chartMap.z[j])

RECURSIVE IsSubSeq(_, _)
\* a is b with some of its elements left out
IsSubSeq(a, b) ==
    IF a = <<>> THEN TRUE
    ELSE IF b = <<>> THEN FALSE
    ELSE IF Head(a) = Head(b) THEN IsSubSeq(Tail(a), Tail(b))
    ELSE IsSubSeq(a, Tail(b))

\* the filter's output for the filters of the latest call and another range
WithRange(offsetMin, offsetMax) ==
    FilterRows(rawData, last.regionFilter, last.deviceTypeFilter, offsetMin, offsetMax)

\* the offsets the ranges are taken from: the slider's stops and the
\* offsets just outside the slider
RangeEnds == SliderStops \cup {0 - 1, totalDays + 1}

\* a is a sub-sequence of b, and so no longer
Within(a, b) == IsSubSeq(a, b) /\ Len(a) <= Len(b)

\* C17: with the region and the category filter fixed, the output for a
\* range is a sub-sequence of the output for every range that contains it,
\* and so has no more rows: checked for the output of the latest call
\* against every wider and every narrower range.
C17_NarrowerRangeGivesSubsequence ==
    last.ran =>
        \A lo, hi \in RangeEnds :
            /\ (lo <= last.offsetMin /\ last.offsetMax <= hi) =>
                  Within(last.filtered, WithRange(lo, hi))
            /\ (last.offsetMin <= lo /\ lo <= hi /\ hi <= last.offsetMax) =>
                  Within(WithRange(lo, hi), last.filtered)

\* the latest call had a filter and a range narrower than the slider's, and
\* its output is smaller than that of the whole range, but not empty
C17_Witness ==
    /\ last.ran
    /\ last.regionFilter # ""
    /\ last.offsetMin <= last.offsetMax
    /\ last.offsetMin > 0 \/ last.offsetMax < totalDays
    /\ last.filtered # <<>>
    /\ Len(last.filtered) < Len(WithRange(0, totalDays))

\* the step makes a renderAllCharts call, and not the first one
CallsAgain == last.ran /\ nRenders' = nRenders + 1

\* the call of the step read the Filter State the call before it read
ReadsSameState ==
    /\ last'.regionFilter = last.regionFilter
    /\ last'.deviceTypeFilter = last.deviceTypeFilter
    /\ last'.offsetMin = last.offsetMin
    /\ last'.offsetMax = last.offsetMax

\* C18: a recomputation that reads the Filter State and the store the one
\* before it read yields the same filtered rows, row for row; and a
\* recomputation leaves the store as it was and the controls showing what it
\* read from them.  (The slider is left out of the last part for a slide
\* callback: the widget stores the new handle positions once the callback
\* has returned.)
C18_FilterIsIdempotent ==
    [][CallsAgain =>
          /\ UNCHANGED storeVars
          /\ ReadsSameState => last'.filtered = last.filtered
          /\ regionSelect' = last'.regionFilter
          /\ deviceTypeSelect' = last'.deviceTypeFilter
          /\ event'.by # "slide" =>
                sliderValues' = <<last'.offsetMin, last'.offsetMax>>]_vars

\* the second call of a run was made by a double-click on the map with no
\* region selected: it read what the first call read, and kept every row
C18_Witness ==
    /\ nRenders = 2
    /\ event.by = "map doubleclick"
    /\ Len(rawData) = MaxRows
    /\ last.filtered = rawData

\* the date a well-formed date string names is after 2021-10-01
AfterMinimum(day) ==
    /\ Len(day) = 3
    /\ \A i \in 1..3 : day[i].k = "num"
    /\ DaysFromCivil(day[3].v, day[2].v, day[1].v) > DaysFromCivil(2021, 10, 1)

\* the rows Load has to retain
Retainable(row) ==
    /\ row.region # ""
    /\ row.product # ""
    /\ row.device_created_day # <<>>
    /\ AfterMinimum(row.device_created_day)

\* the rows of the store as the CSV file had them
AsInFile(rows) ==
    [i \in 1..Len(rows) |->
        CsvRow(rows[i].region, rows[i].product, rows[i].device_created_day,
               rows[i].device_type_category)]

\* C19: the load callback retains exactly the rows of the file that have a
\* region, a product and a creation day and whose creation day is a
\* calendar day after 2021-10-01, in file order.
C19_LoadRetainsRowsAfterMinimum ==
    [][(phase = "loading" /\ phase' # "loading") =>
          AsInFile(rawData') = SelectSeq(csv, Retainable)]_vars

\* the store holds the three rows (Wien, A, 01.01.2022, Mobile),
\* (Wien, B, 02.01.2022, Tablet), (Tirol, A, 05.01.2022, Mobile)
ThreeRowsLoaded == phase = "ready" /\ AsInFile(rawData) = SubSeq(MasterRows, 1, 3)

\* the latest call read this region, no category and the whole range
ReadWholeRange(regionFilter) ==
    /\ last.ran
    /\ last.regionFilter = regionFilter
    /\ last.deviceTypeFilter = ""
    /\ last.offsetMin = 0
    /\ last.offsetMax = totalDays

\* C20: for the three-row file, load yields 2022-01-01 as earliest date and
\* a span of 4 days; the filter with region Wien and the whole range yields
\* the two Wien rows; with no filter the bar chart shows Mobile: 2 and
\* Tablet: 1 and the map Wien: 2 and Tirol: 1.
C20_ThreeRowExample ==
    ThreeRowsLoaded =>
        /\ earliestDateObj = NewDateISO([y |-> 2022, m |-> 1, d |-> 1])
        /\ totalDays = 4
        /\ ReadWholeRange("Wien") =>
              AsInFile(last.filtered) = SubSeq(MasterRows, 1, 2)
        /\ (ReadWholeRange("") /\ nRenders = 1) =>
              /\ chartBar.bars = <<[label |-> "Mobile", count |-> 2],
                                   [label |-> "Tablet", count |-> 1]>>
              /\ chartMap.drawn =>
                    /\ chartMap.locations = <<"Wien", "Tirol">>
                    /\ chartMap.z = <<[num |-> 2, den |-> 1], [num |-> 1, den |-> 1]>>

(***************************************************************************)
(* The claims of the specification, C21 to C26.                            *)
(***************************************************************************)
\* C21: once the load has succeeded the span is not negative and the
\* slider's handles satisfy 0 <= min <= max <= span, whatever slider, reset
\* and chart events have happened; the same holds of the range the latest
\* recomputation read.
C21_OffsetRangeWithinSpan ==
    phase = "ready" =>
        /\ totalDays >= 0
        /\ 0 <= sliderValues[1]
        /\ sliderValues[1] <= sliderValues[2]
        /\ sliderValues[2] <= totalDays
        /\ last.ran =>
              /\ 0 <= last.offsetMin
              /\ last.offsetMin <= last.offsetMax
              /\ last.offsetMax <= totalDays

\* the left handle has been moved to the right end of a span of some
\* days, and a recomputation has read the range
C21_Witness ==
    /\ phase = "ready"
    /\ totalDays > 0
    /\ sliderValues = <<totalDays, totalDays>>
    /\ last.ran
    /\ last.offsetMin = totalDays


\* a Filter State as the map uses it
MapState(region, category, relative) ==
    [region |-> region, category |-> category, relative |-> relative]

\* The Filter States in force when a recomputation that handed the rows in
\* data to renderMapChart was triggered, while at most two recomputations
\* have run: the default state of the load, and the state the second one read
\* (no control has changed since).
StartStates(data) ==
    (IF data = FilterRows(rawData, "", "", 0, totalDays)
     THEN {MapState("", "", FALSE)} ELSE {})
    \cup (IF nRenders = 2 /\ data = last.filtered
          THEN {MapState(last.regionFilter, last.deviceTypeFilter, toggleFilterMap)}
          ELSE {})

\* the step is the then-callback of the fetch f drawing the map
MapDrawnFor(f) ==
    /\ fetches' = Settled(fetches, f)
    /\ nRenders' = nRenders
    /\ GeoJsonError \notin console'

\* C22: a map render uses counts, relative flag and viewport of the one
\* Filter State in force when the recomputation that started it was
\* triggered: while at most two recomputations have run, none of them by the
\* slider, the then-callback of a fetch draws the map of the rows, region,
\* category and flag of a state in which a fetch for these rows was started.
C22_MapDrawnFromStartState ==
    [][\A f \in fetches :
          (MapDrawnFor(f) /\ nRenders <= 2 /\ event.by # "slide") =>
              \E s \in StartStates(f.data) :
                  chartMap' = renderMapChart(f.data, s.region, s.category,
                                             s.relative)]_vars


\* the step is a call of the slide callback
SlideEvent == nRenders' = nRenders + 1 /\ event'.by = "slide"

\* C23: on every slider drag event the offset range the filter uses inside
\* the handler is the pair the handler writes to the date range label, the
\* new handle positions; the charts do not lag one drag step behind.
C23_SlideFiltersWithNewRange ==
    [][SlideEvent =>
          /\ dateRangeLabel'.offsets = sliderValues'
          /\ <<last'.offsetMin, last'.offsetMax>> = dateRangeLabel'.offsets
          /\ last'.filtered = FilterRows(rawData, regionSelect, deviceTypeSelect,
                                         sliderValues'[1], sliderValues'[2])
          /\ chartLine' = renderLineChart(zone, last'.filtered, earliestDateObj,
                                          sliderValues')]_vars


\* the step is a click on a bar of a chart that shows the rows of the latest
\* recomputation, which read the range the slider is at
BarClickOnCurrentChart ==
    /\ nRenders' = nRenders + 1
    /\ event'.by = "bar click"
    /\ last.ran
    /\ chartBar = renderBarChart(last.filtered)
    /\ <<last.offsetMin, last.offsetMax>> = sliderValues

\* the rows of data the bar chart counts under label
CountedUnderBar(data, label) ==
    SelectSeq(data, LAMBDA row : CategoryOf(row) = label)

\* C24: after a click on the bar labelled L the next filtered subset is
\* exactly the rows that were counted under L in the clicked chart, the
\* 'Unknown' bucket of the rows without a category included.
C24_BarClickKeepsTheBarsRows ==
    [][BarClickOnCurrentChart =>
          last'.filtered = CountedUnderBar(last.filtered, event'.arg)]_vars

\* The same for the bars of the named categories only.
C24_NamedBarClickKeepsTheBarsRows ==
    [][(BarClickOnCurrentChart /\ event'.arg # "Unknown") =>
          last'.filtered = CountedUnderBar(last.filtered, event'.arg)]_vars


\* the latest handler to have run is the load callback or the reset listener
AfterLoadOrReset == phase = "ready" /\ event.by \in {"load", "reset click"}

\* C25: in the default Filter State, right after a successful load and
\* after every reset (no region, no category, range (0, totalDays)), the
\* filtered subset is the whole Dataset Store: every retained row has an
\* offset, within 0..totalDays; some row has offset 0 and some totalDays.
C25_DefaultStateShowsWholeStore ==
    AfterLoadOrReset =>
        /\ regionSelect = ""
        /\ deviceTypeSelect = ""
        /\ sliderValues = <<0, totalDays>>
        /\ last.filtered = rawData
        /\ \A i \in 1..Len(rawData) :
               /\ rawData[i].hasOffset
               /\ 0 <= rawData[i].offsetDays
               /\ rawData[i].offsetDays <= totalDays
        /\ \E i \in 1..Len(rawData) : rawData[i].offsetDays = 0
        /\ \E i \in 1..Len(rawData) : rawData[i].offsetDays = totalDays

\* the reset listener has run after two other recomputations, on a store of
\* rows of different days
C25_Witness ==
    /\ event.by = "reset click"
    /\ totalDays > 0
    /\ Len(rawData) = MaxRows
    /\ last.filtered = rawData
    /\ chartBar.drawn
    /\ nRenders = MaxRenders


\* the step is a recomputation whose renderMapChart call sends a request for
\* the boundary data
BoundaryRequested ==
    /\ nRenders' = nRenders + 1
    /\ fetches' = Started(fetches, last'.filtered)

\* C26: the boundary data is a one-shot load, requested at most once, later
\* map renders reusing the result of the first successful load: once a fetch
\* has completed and the map has been drawn from it, no recomputation sends
\* another request.
C26_BoundaryDataRequestedOnce ==
    [][BoundaryRequested => ~chartMap.drawn]_vars

====
